---- MODULE Spec2Model ----
(***************************************************************************)
(* Model of the macro-analysis dashboard: the three sector modules         *)
(* (RealSector, ExternalSector, PublicFinances) and main.py.               *)
(*                                                                         *)
(* Texts are sequences of atoms.  An atom is a one-character string for    *)
(* the texts whose characters matter (numbers: "1", ",", "-") and a whole  *)
(* word for labels ("Gross Borrowings"); the atom " " is white space.      *)
(* A missing cell (pandas NaN) is the text NA.  Floats are records         *)
(* [k, n]: k = "num" with the integer n, k = "nan", or k = "inf" with the  *)
(* sign n.  The cell alphabet has no decimal point.                        *)
(***************************************************************************)
EXTENDS Integers, Sequences, FiniteSets, TLC

VARIABLES files, session_state, view, first, last_choice, arg, ret

vars == <<files, session_state, view, first, last_choice, arg, ret>>

----------------------------------------------------------------------------
(* Bounds *)

\* most data rows of a drawn CSV file
MaxRows == 2
\* most rows of a drawn hierarchical (Net Domestic Borrowings) file
MaxHierRows == 3
\* longest series drawn for the regression
MaxPoints == 4
\* largest intercept / slope magnitude of a drawn linear series
MaxCoef == 2

----------------------------------------------------------------------------
(* Texts *)

SP == " "
EmptyStr == <<>>
\* pandas NaN as a cell of an object column
NA == <<"NaN">>

IsNA(c) == c = NA

\* str.strip()
RECURSIVE LStrip(_)
LStrip(s) == IF s # <<>> /\ Head(s) = SP THEN LStrip(Tail(s)) ELSE s

RECURSIVE RStrip(_)
RStrip(s) == IF s # <<>> /\ s[Len(s)] = SP THEN RStrip(SubSeq(s, 1, Len(s) - 1)) ELSE s

Strip(s) == RStrip(LStrip(s))

\* `sub in s` for texts
Contains(s, sub) ==
    \E i \in 1..(Len(s) - Len(sub) + 1) : SubSeq(s, i, i + Len(sub) - 1) = sub

\* the text left as it is
KeepCommas(s) == s

\* str.replace(",", "")
RemoveCommas(s) == SelectSeq(s, LAMBDA a : a # ",")

\* Series.astype(str) on one cell: NaN prints as "nan"
AsTypeStr(c) == IF IsNA(c) THEN <<"nan">> ELSE c

----------------------------------------------------------------------------
(* Floats *)

Num(n) == [k |-> "num", n |-> n]
NaNf == [k |-> "nan", n |-> 0]
Inf(sign) == [k |-> "inf", n |-> sign]

IsFinite(v) == v.k = "num"

Digits == {"0", "1", "2", "3", "4", "5", "6", "7", "8", "9"}

DigitVal(d) ==
    CASE d = "0" -> 0 [] d = "1" -> 1 [] d = "2" -> 2 [] d = "3" -> 3
      [] d = "4" -> 4 [] d = "5" -> 5 [] d = "6" -> 6 [] d = "7" -> 7
      [] d = "8" -> 8 [] d = "9" -> 9

RECURSIVE DigitsVal(_)
DigitsVal(s) ==
    IF s = <<>> THEN 0 ELSE 10 * DigitsVal(SubSeq(s, 1, Len(s) - 1)) + DigitVal(s[Len(s)])

AllDigits(s) == s # <<>> /\ \A i \in 1..Len(s) : s[i] \in Digits

\* The unsigned part of a numeric literal
ParseUnsigned(s, sign) ==
    IF AllDigits(s) THEN Num(sign * DigitsVal(s))
    ELSE IF s = <<"inf">> THEN Inf(sign)
    ELSE IF s = <<"nan">> THEN NaNf
    ELSE [k |-> "bad", n |-> 0]

\* The float a text denotes, [k |-> "bad"] when it denotes none
ParseFloat(text) ==
    LET s == Strip(text) IN
    IF s = <<>> THEN [k |-> "bad", n |-> 0]
    ELSE IF Head(s) = "-" THEN ParseUnsigned(Tail(s), -1)
    ELSE IF Head(s) = "+" THEN ParseUnsigned(Tail(s), 1)
    ELSE ParseUnsigned(s, 1)

\* pd.to_numeric(..., errors='coerce') on one text: unparseable becomes NaN
ToNumericCoerce(text) ==
    LET v == ParseFloat(text) IN IF v.k = "bad" THEN NaNf ELSE v

----------------------------------------------------------------------------
(* Data frames: [raised, columns, rows]; raised = "" when the read succeeded *)

Missing == <<<<<<"<missing>">>>>>>

Raise(e) == [raised |-> e, table |-> <<>>]
Return(t) == [raised |-> "", table |-> t]

UnnamedCol(i) == <<"Unnamed", ":", SP, ToString(i - 1)>>

\* pd.read_csv(file_path, skiprows=k): the header line names the columns
\* (a blank name becomes "Unnamed: i"), a blank cell is NaN
ReadCsv(file, skiprows) ==
    IF file = Missing THEN [raised |-> "FileNotFoundError", columns |-> <<>>, rows |-> <<>>]
    ELSE IF Len(file) <= skiprows
         THEN [raised |-> "EmptyDataError", columns |-> <<>>, rows |-> <<>>]
    ELSE LET lines == SubSeq(file, skiprows + 1, Len(file))
             header == lines[1]
         IN [raised |-> "",
             columns |-> [i \in 1..Len(header) |->
                             IF header[i] = <<>> THEN UnnamedCol(i) ELSE header[i]],
             rows |-> [r \in 1..(Len(lines) - 1) |->
                          [i \in 1..Len(header) |->
                              IF lines[r + 1][i] = <<>> THEN NA ELSE lines[r + 1][i]]]]

HasColumn(df, name) == \E i \in 1..Len(df.columns) : df.columns[i] = name

\* the indices 1..n without those in `drop`, in order
Keep(n, drop) == SelectSeq([i \in 1..n |-> i], LAMBDA i : i \notin drop)

\* the frame restricted to the columns idx (a sequence of column indices)
Project(df, idx) ==
    [raised |-> df.raised,
     columns |-> [j \in 1..Len(idx) |-> df.columns[idx[j]]],
     rows |-> [r \in 1..Len(df.rows) |-> [j \in 1..Len(idx) |-> df.rows[r][idx[j]]]]]

\* df.drop(columns=[name])
DropColumn(df, name) ==
    Project(df, Keep(Len(df.columns), {i \in 1..Len(df.columns) : df.columns[i] = name}))

\* df.iloc[1:].reset_index(drop=True)
DropFirstRow(df) == [df EXCEPT !.rows = Tail(df.rows)]

\* df.dropna(axis=1, how='all')
DropAllNaColumns(df) ==
    Project(df, Keep(Len(df.columns),
        {i \in 1..Len(df.columns) : \A r \in 1..Len(df.rows) : IsNA(df.rows[r][i])}))

\* df.melt(id_vars=[columns[idIdx]], value_vars=valIdx): one record per
\* (value column, row), value columns outermost
Melt(df, idIdx, valIdx) ==
    LET nr == Len(df.rows) IN
    [k \in 1..(nr * Len(valIdx)) |->
        LET c == valIdx[((k - 1) \div nr) + 1]
            r == ((k - 1) % nr) + 1
        IN [id |-> df.rows[r][idIdx], var |-> df.columns[c], value |-> df.rows[r][c]]]

\* the melt of the simple layout: first column is the category
MeltSimple(df) ==
    LET m == Melt(df, 1, Keep(Len(df.columns), {1})) IN
    [k \in 1..Len(m) |-> [Category |-> m[k].id, Year |-> m[k].var, Value |-> m[k].value]]

\* "Clean numbers" of ExternalSector and PublicFinances: commas removed,
\* to_numeric with errors='coerce', then dropna(subset=['Value'])
CleanNumbers(long) ==
    LET coerced == [k \in 1..Len(long) |->
                      [long[k] EXCEPT !.Value = ToNumericCoerce(RemoveCommas(AsTypeStr(@)))]]
    IN Return(SelectSeq(coerced, LAMBDA row : row.Value.k # "nan"))

\* "Clean numbers" of RealSector: commas removed, then astype(float), which
\* raises ValueError on the first text that is no float and keeps NaN
CleanNumbersStrict(long) ==
    LET parsed == [k \in 1..Len(long) |->
                     [long[k] EXCEPT !.Value = ParseFloat(RemoveCommas(AsTypeStr(@)))]]
    IN IF \E k \in 1..Len(parsed) : parsed[k].Value.k = "bad"
       THEN Raise("ValueError")
       ELSE Return(parsed)

----------------------------------------------------------------------------
(* RealSector.load_csv *)

RealSector_CSV_FILES ==
    {"GDP at Constant Prices", "GDP by Expenditure Category", "Gross Domestic Savings"}

RealSector_load_csv(child_name, file) ==
    LET df == ReadCsv(file, 1) IN
    IF df.raised # "" THEN Raise(df.raised)
    ELSE LET stripped == [df EXCEPT !.columns = [i \in 1..Len(df.columns) |-> Strip(df.columns[i])]]
         IN CleanNumbersStrict(MeltSimple(stripped))

----------------------------------------------------------------------------
(* ExternalSector.load_csv *)

ExternalSector_CSV_FILES ==
    {"Exports", "Imports", "Foreign Employment", "USD Conversion Rates"}

\* the "S.N." / "S.No." column dropped when present
DropSerialColumn(df) ==
    IF HasColumn(df, <<"S.N.">>) THEN DropColumn(df, <<"S.N.">>)
    ELSE IF HasColumn(df, <<"S.No.">>) THEN DropColumn(df, <<"S.No.">>)
    ELSE df

\* df.iloc[0].isna().any() or (df.iloc[0] == "Annual").any()
IsMetaRow(row) ==
    \E i \in 1..Len(row) : IsNA(row[i]) \/ row[i] = <<"Annual">>

\* headers are Buying, Selling, Middle; the unnamed first column is the Year
RenameUsdColumns(df) ==
    [df EXCEPT !.columns = [i \in 1..Len(df.columns) |->
        IF Contains(df.columns[i], <<"Unnamed">>) THEN <<"Year">> ELSE Strip(df.columns[i])]]

\* MeltUsd without the filter on 'Middle'
MeltUsdKeepMiddle(df) ==
    LET y == CHOOSE i \in 1..Len(df.columns) :
                 /\ df.columns[i] = <<"Year">>
                 /\ \A j \in 1..(i - 1) : df.columns[j] # <<"Year">>
        m == Melt(df, y, Keep(Len(df.columns), {y}))
    IN [k \in 1..Len(m) |->
           [Category |-> m[k].var, Year |-> m[k].id, Value |-> m[k].value]]

\* df.melt(id_vars=['Year'], var_name='Category'), then the rows whose
\* Category is not 'Middle'
MeltUsd(df) ==
    LET y == CHOOSE i \in 1..Len(df.columns) :
                 /\ df.columns[i] = <<"Year">>
                 /\ \A j \in 1..(i - 1) : df.columns[j] # <<"Year">>
        m == Melt(df, y, Keep(Len(df.columns), {y}))
        long == [k \in 1..Len(m) |->
                    [Category |-> m[k].var, Year |-> m[k].id, Value |-> m[k].value]]
    IN SelectSeq(long, LAMBDA row : row.Category # <<"Middle">>)

ExternalSector_load_csv(child_name, file) ==
    IF child_name \in {"Exports", "Imports", "Foreign Employment"}
    THEN LET df0 == ReadCsv(file, 0) IN
         IF df0.raised # "" THEN Raise(df0.raised)
         ELSE LET df1 == DropSerialColumn(df0) IN
              IF Len(df1.rows) = 0 \/ Len(df1.columns) = 0 THEN Raise("IndexError")
              ELSE LET df2 == IF IsMetaRow(df1.rows[1]) THEN DropFirstRow(df1) ELSE df1
                   IN CleanNumbers(MeltSimple(df2))
    ELSE LET df0 == ReadCsv(file, 1) IN
         IF df0.raised # "" THEN Raise(df0.raised)
         ELSE LET df1 == RenameUsdColumns(df0) IN
              IF ~HasColumn(df1, <<"Year">>) THEN Raise("KeyError")
              ELSE CleanNumbers(MeltUsd(df1))

----------------------------------------------------------------------------
(* PublicFinances.load_csv *)

PublicFinances_CSV_FILES ==
    {"Government Budget Operations", "GoN Revenue", "Debt Ownership",
     "Net Domestic Borrowings"}

\* `token in str(df.iloc[0])`: the printed row shows the column names and
\* the cells of the first row
FirstRowPrints(df, token) ==
    \E i \in 1..Len(df.columns) :
        Contains(df.columns[i], <<token>>) \/ Contains(df.rows[1][i], <<token>>)

SectionHeaders ==
    {<<"Gross Borrowings">>, <<"Payments">>, <<"Net Domestic Borrowings (NDB) (A-B)">>}

YearTokens == {"2022", "2023", "2024", "2025"}

\* the section left over from the table loaded before
InitialSectionLeftOver ==
    IF view.table # <<>> THEN view.table[Len(view.table)].Category ELSE EmptyStr

\* current_section = ""
InitialSection == EmptyStr

\* the loop over df_clean['Category']: the categories, given the section
\* that is current before the first row
RECURSIVE SectionScan(_, _)
SectionScan(cats, current_section) ==
    IF cats = <<>> THEN <<>>
    ELSE LET cat == Head(cats) IN
         IF cat \in SectionHeaders
         THEN <<cat>> \o SectionScan(Tail(cats), cat)
         ELSE IF current_section # EmptyStr /\ cat # EmptyStr
              THEN <<current_section \o <<SP, "-", SP>> \o cat>>
                       \o SectionScan(Tail(cats), current_section)
              ELSE <<cat>> \o SectionScan(Tail(cats), current_section)

\* fillna('') of a label cell
FillNa(c) == IF IsNA(c) THEN EmptyStr ELSE c

\* the first two columns joined by a blank and stripped
MergedLabel(row) == Strip(FillNa(row[1]) \o <<SP>> \o FillNa(row[2]))

\* the columns whose name contains one of the years
ValueCols(df) ==
    SelectSeq([i \in 1..Len(df.columns) |-> i],
              LAMBDA i : \E yr \in YearTokens : Contains(df.columns[i], <<yr>>))

LoadNetDomesticBorrowings(df) ==
    IF Len(df.columns) < 2 THEN Raise("IndexError")
    ELSE LET new_categories ==
                 SectionScan([r \in 1..Len(df.rows) |-> MergedLabel(df.rows[r])],
                             InitialSection)
             value_cols == ValueCols(df)
             nr == Len(df.rows)
             long == [k \in 1..(nr * Len(value_cols)) |->
                        LET c == value_cols[((k - 1) \div nr) + 1]
                            r == ((k - 1) % nr) + 1
                        IN [Category |-> new_categories[r],
                            Year |-> df.columns[c],
                            Value |-> df.rows[r][c]]]
         IN CleanNumbers(long)

PublicFinances_load_csv(child_name, file) ==
    IF child_name = "Government Budget Operations"
    THEN LET df == ReadCsv(file, 0) IN
         IF df.raised # "" THEN Raise(df.raised) ELSE CleanNumbers(MeltSimple(df))
    ELSE IF child_name = "GoN Revenue"
    THEN LET df0 == ReadCsv(file, 1) IN
         IF df0.raised # "" THEN Raise(df0.raised)
         ELSE IF Len(df0.rows) = 0 THEN Raise("IndexError")
         ELSE LET df1 == IF FirstRowPrints(df0, "Annual") THEN DropFirstRow(df0) ELSE df0
                  df2 == DropAllNaColumns(df1)
              IN IF Len(df2.columns) = 0 \/ df2.columns[1] # df1.columns[1]
                 THEN Raise("KeyError")
                 ELSE CleanNumbers(MeltSimple(df2))
    ELSE IF child_name = "Debt Ownership"
    THEN LET df0 == ReadCsv(file, 0) IN
         IF df0.raised # "" THEN Raise(df0.raised)
         ELSE LET df1 == IF HasColumn(df0, <<"S.N.">>) THEN DropColumn(df0, <<"S.N.">>) ELSE df0
              IN IF Len(df1.rows) = 0 \/ Len(df1.columns) = 0 THEN Raise("IndexError")
                 ELSE LET df2 == IF FirstRowPrints(df1, "Mid-Jul")
                                 THEN DropFirstRow(df1) ELSE df1
                      IN CleanNumbers(MeltSimple(df2))
    ELSE LET df == ReadCsv(file, 0) IN
         IF df.raised # "" THEN Raise(df.raised) ELSE LoadNetDomesticBorrowings(df)

\* the datasets whose load tests the first data row for metadata
DetectingDatasets ==
    {"Exports", "Imports", "Foreign Employment", "GoN Revenue", "Debt Ownership"}

\* whether load_csv takes the first data row of the file out of the grid
\* (files read with at least one data row)
FirstRowDropped(child_name, file) ==
    IF child_name \in {"Exports", "Imports", "Foreign Employment"}
    THEN IsMetaRow(DropSerialColumn(ReadCsv(file, 0)).rows[1])
    ELSE IF child_name = "GoN Revenue"
    THEN FirstRowPrints(ReadCsv(file, 1), "Annual")
    ELSE LET df0 == ReadCsv(file, 0) IN
         FirstRowPrints(IF HasColumn(df0, <<"S.N.">>) THEN DropColumn(df0, <<"S.N.">>) ELSE df0,
                        "Mid-Jul")

\* load_csv of the sector module
load_csv(sector, child_name, file) ==
    IF sector = "Real Sector" THEN RealSector_load_csv(child_name, file)
    ELSE IF sector = "External Sector" THEN ExternalSector_load_csv(child_name, file)
    ELSE PublicFinances_load_csv(child_name, file)

----------------------------------------------------------------------------
(* Rationals <<numerator, denominator>> in lowest terms, denominator > 0 *)

Abs(n) == IF n < 0 THEN -n ELSE n

RECURSIVE GCD(_, _)
GCD(a, b) == IF b = 0 THEN a ELSE GCD(b, a % b)

Rat(n, d) ==
    LET g == GCD(Abs(n), Abs(d))
        sgn == IF d < 0 THEN -1 ELSE 1
    IN <<sgn * (n \div g), sgn * (d \div g)>>

RatAdd(p, q) == Rat(p[1] * q[2] + q[1] * p[2], p[2] * q[2])
RatMul(p, q) == Rat(p[1] * q[1], p[2] * q[2])

RECURSIVE SumTo(_, _)
SumTo(f, n) == IF n = 0 THEN 0 ELSE f[n] + SumTo(f, n - 1)

----------------------------------------------------------------------------
(* regression_projection *)

\* df[df['Category'] == category]: NaN equals nothing
RowsOf(df, category) ==
    SelectSeq(df, LAMBDA row : row.Category = category /\ ~IsNA(category))

\* the regression run against the Year label read as a number
x_from_year_label(df_cat) ==
    [i \in 1..Len(df_cat) |->
        DigitsVal(SelectSeq(df_cat[i].Year, LAMBDA a : a \in Digits))]

\* x_indices = list(range(len(y_values)))
x_indices(df_cat) == [i \in 1..Len(df_cat) |-> i - 1]

\* next_x = len(x_indices)
next_x(x) == Len(x)

NoReg == [kind |-> ""]

\* stats.linregress(x, y) and the projection slope * next_x + intercept.
\* kind "raised": the inputs are empty; kind "nan": a single point, or a
\* value that is not finite, gives NaN slope and intercept
Linregress(x, y_values) ==
    LET n == Len(x) IN
    IF n = 0 THEN [kind |-> "raised"]
    ELSE IF \E i \in 1..n : ~IsFinite(y_values[i]) THEN [kind |-> "nan"]
    ELSE LET y == [i \in 1..n |-> y_values[i].n]
             Sx == SumTo(x, n)
             Sy == SumTo(y, n)
             Sxx == SumTo([i \in 1..n |-> x[i] * x[i]], n)
             Sxy == SumTo([i \in 1..n |-> x[i] * y[i]], n)
             Syy == SumTo([i \in 1..n |-> y[i] * y[i]], n)
             Dx == n * Sxx - Sx * Sx
             Dxy == n * Sxy - Sx * Sy
             Dy == n * Syy - Sy * Sy
         IN IF Dx = 0 THEN [kind |-> "nan"]
            ELSE [kind |-> "fit",
                  slope |-> Rat(Dxy, Dx),
                  intercept |-> Rat(Sy * Dx - Dxy * Sx, n * Dx),
                  r2 |-> IF Dy = 0 THEN Rat(0, 1) ELSE Rat(Dxy * Dxy, Dx * Dy)]

Project1(fit, nx) ==
    IF fit.kind = "fit"
    THEN fit @@ [next_val |-> RatAdd(RatMul(fit.slope, Rat(nx, 1)), fit.intercept)]
    ELSE fit

\* RealSector.regression_projection: no test for an empty selection
RealSector_regression_projection(df, category) ==
    LET df_cat == RowsOf(df, category)
        y_values == [i \in 1..Len(df_cat) |-> df_cat[i].Value]
        x == x_indices(df_cat)
    IN Project1(Linregress(x, y_values), next_x(x))

\* ExternalSector / PublicFinances.regression_projection
Checked_regression_projection(df, category) ==
    LET df_cat == RowsOf(df, category)
        y_values == [i \in 1..Len(df_cat) |-> df_cat[i].Value]
        x == x_indices(df_cat)
    IN IF df_cat = <<>> THEN [kind |-> "warning"]
       ELSE Project1(Linregress(x, y_values), next_x(x))

regression_projection(sector, df, category) ==
    IF sector = "Real Sector" THEN RealSector_regression_projection(df, category)
    ELSE Checked_regression_projection(df, category)

----------------------------------------------------------------------------
(* child_buttons *)

RECURSIVE Unique(_)
Unique(s) ==
    IF s = <<>> THEN <<>>
    ELSE LET rest == Unique(SubSeq(s, 1, Len(s) - 1)) IN
         IF \E i \in 1..Len(rest) : rest[i] = s[Len(s)] THEN rest
         ELSE Append(rest, s[Len(s)])

\* df['Category'].unique().tolist()
CategoriesOf(df) == Unique([k \in 1..Len(df) |-> df[k].Category])

\* df[df['Category'].isin(selected_sectors)]
RowsIn(df, selected_sectors) ==
    SelectSeq(df, LAMBDA row : row.Category \in selected_sectors)

HasDuplicates(rows) ==
    \E i, j \in 1..Len(rows) :
        i < j /\ rows[i].Year = rows[j].Year /\ rows[i].Category = rows[j].Category

\* a pivot that keeps the last of the rows sharing a pair
PivotLastWins(rows) ==
    [raised |-> "",
     data |-> {rows[k] : k \in {i \in 1..Len(rows) :
                  \A j \in (i + 1)..Len(rows) :
                      ~(rows[i].Year = rows[j].Year /\ rows[i].Category = rows[j].Category)}}]

\* .pivot(index='Year', columns='Category', values='Value'): raises
\* ValueError when two rows share an (index, column) pair
Pivot(rows) ==
    IF HasDuplicates(rows) THEN [raised |-> "ValueError", data |-> {}]
    ELSE [raised |-> "", data |-> {rows[k] : k \in 1..Len(rows)}]

\* the chart block: "chart" st.line_chart, "error" st.error, "warning"
\* st.warning
ChartBlock(df, selected_sectors) ==
    IF selected_sectors # {}
    THEN LET chart_data == Pivot(RowsIn(df, selected_sectors)) IN
         IF chart_data.raised = "" THEN [chart |-> "chart", data |-> chart_data.data]
         ELSE [chart |-> "error", data |-> {}]
    ELSE [chart |-> "warning", data |-> {}]

\* child_buttons(df) with the widget values of this run; raised names the
\* exception that leaves the function
child_buttons(sector, df, selected_sectors, selected_category, run_reg) ==
    IF df = <<>>
    THEN [raised |-> "IndexError", chart |-> "", data |-> {}, reg |-> NoReg]
    ELSE LET c == ChartBlock(df, selected_sectors)
             reg == IF run_reg THEN regression_projection(sector, df, selected_category)
                    ELSE NoReg
         IN [raised |-> IF reg.kind = "raised" THEN "ValueError" ELSE "",
             chart |-> c.chart, data |-> c.data, reg |-> reg]

----------------------------------------------------------------------------
(* The CSV files drawn as inputs.  A file is a sequence of lines, a line a *)
(* sequence of cell texts.                                                 *)

Y1 == <<"2022", "/", "23">>
Y2 == <<"2023", "/", "24">>
Blank == <<>>
GDP == <<"GDP">>
Tax == <<"Tax">>
TitleLine(n) == [i \in 1..n |-> IF i = 1 THEN <<"Table">> ELSE Blank]

\* data rows of the simple layout: serial number, label, two period cells
SimpleRowSet ==
    { <<<<"1">>, GDP, <<"1", ",", "2", "0", "0">>, <<"3", "0">>>>,
      <<<<"2">>, GDP, <<"-">>, <<"5">>>>,
      <<<<"3">>, Tax, <<"7">>, Blank>>,
      <<<<"4">>, Blank, <<"4">>, <<"4", "0">>>>,
      <<Blank, Blank, <<"Annual">>, <<"Annual">>>>,
      <<<<"5">>, Tax, <<"a", "b", "c">>, <<"8">>>>,
      <<<<"6">>, Tax, <<"inf">>, <<"9">>>> }

SeqsUpTo(S, n) == UNION {[1..k -> S] : k \in 0..n}

SerialNames == {Blank, <<"S.N.">>, <<"S.No.">>}

\* a simple file: with a serial-number column named sn (none when sn is
\* blank), under a title line when the loader skips one
SimpleFile(sn, rows, titled) ==
    LET cut(line) == IF sn = Blank THEN Tail(line) ELSE line
        header == cut(<<sn, <<"Particulars">>, Y1, Y2>>)
        body == <<header>> \o [r \in 1..Len(rows) |-> cut(rows[r])]
    IN IF titled THEN <<TitleLine(Len(header))>> \o body ELSE body

SimpleFiles(titled) ==
    {SimpleFile(sn, rows, titled) : sn \in SerialNames, rows \in SeqsUpTo(SimpleRowSet, MaxRows)}

\* USD Conversion Rates: a title line, the header, rows of period, buying,
\* selling, middle
UsdHeaders ==
    { <<Blank, <<"Buying">>, <<"Selling">>, <<"Middle">>>>,
      <<Blank, <<SP, "Buying">>, <<"Selling", SP>>, <<SP, "Middle", SP>>>>,
      <<<<"Date">>, <<"Buying">>, <<"Selling">>, <<"Middle">>>> }

UsdRowSet ==
    { <<Y1, <<"1", "3", "0">>, <<"1", "3", "1">>, <<"1", "3", "0">>>>,
      <<Y2, <<"1", ",", "3", "0", "0">>, <<"-">>, <<"7">>>>,
      <<Y1, <<"a", "b", "c">>, <<"5">>, <<"6">>>>,
      <<Blank, <<"4">>, Blank, <<"4">>>> }

UsdFiles ==
    {<<TitleLine(4), h>> \o rows : h \in UsdHeaders, rows \in SeqsUpTo(UsdRowSet, MaxRows)}

\* Net Domestic Borrowings: marker column, label column, an empty column,
\* one period column
HierHeader == <<<<"Headings">>, <<"Labels">>, Blank, Y1>>

GrossBorrowings == <<"Gross Borrowings">>
Payments == <<"Payments">>
TBills == <<"T-Bills">>

HierRowSet ==
    { <<<<"A">>, GrossBorrowings, Blank, <<"1", "0", "0">>>>,
      <<Blank, TBills, Blank, <<"4", "0">>>>,
      <<<<"B">>, Payments, Blank, <<"6", "0">>>>,
      <<Blank, GrossBorrowings, Blank, <<"1", "0", "0">>>>,
      <<Blank, Payments, Blank, <<"6", "0">>>>,
      <<Blank, Blank, Blank, <<"7">>>>,
      <<Blank, TBills, Blank, <<"-">>>> }

HierFiles == {<<HierHeader>> \o rows : rows \in SeqsUpTo(HierRowSet, MaxHierRows)}

\* whether load_csv of the dataset skips a title line
Titled(sector, name) ==
    sector = "Real Sector" \/ name \in {"GoN Revenue", "USD Conversion Rates"}

FilesFor(sector, name) ==
    {Missing} \cup
    (IF name = "USD Conversion Rates" THEN UsdFiles
     ELSE IF name = "Net Domestic Borrowings" THEN HierFiles
     ELSE SimpleFiles(Titled(sector, name)))

Sectors == {"Real Sector", "External Sector", "Public Finances"}

CsvFiles(sector) ==
    IF sector = "Real Sector" THEN RealSector_CSV_FILES
    ELSE IF sector = "External Sector" THEN ExternalSector_CSV_FILES
    ELSE PublicFinances_CSV_FILES

----------------------------------------------------------------------------
(* Idle values of the variables a specification does not use *)

NoFiles == <<>>
NoSession == [real_sector_child |-> "", external_sector_child |-> "",
              public_finances_child |-> ""]
NoView == [parent |-> "", child |-> "", outcome |-> "", raised |-> "",
           load_raised |-> "", table |-> <<>>, chart |-> "", reg |-> [kind |-> ""]]
NoFirst == [sector |-> "", name |-> "", raised |-> "", table |-> <<>>]
\* per sector: whether its function has run, and the child the user chose
\* last in its selectbox ("" when the user chose none)
NoChoice == [s \in Sectors |-> [ran |-> FALSE, child |-> ""]]
NoArg == [fn |-> ""]
NoRet == [done |-> FALSE, raised |-> "", table |-> <<>>]

----------------------------------------------------------------------------
(* SpecLoad: load_csv applied to a drawn dataset name and file *)

\* the numbers written with thousands separators: below and above one
\* thousand and one million, with groups of zeros, of both signs
Numbers ==
    {0, 7, 999, 1000, 1200, 12345, 100200, 1000000, 1000001, 1234567,
     -1, -1000, -1234567}

DigitText(d) ==
    CASE d = 0 -> "0" [] d = 1 -> "1" [] d = 2 -> "2" [] d = 3 -> "3"
      [] d = 4 -> "4" [] d = 5 -> "5" [] d = 6 -> "6" [] d = 7 -> "7"
      [] d = 8 -> "8" [] d = 9 -> "9"

\* the decimal digits of a natural number
RECURSIVE DecimalText(_)
DecimalText(n) ==
    IF n < 10 THEN <<DigitText(n)>> ELSE DecimalText(n \div 10) \o <<DigitText(n % 10)>>

\* a group of exactly three digits
Group3(n) == <<DigitText(n \div 100), DigitText((n \div 10) % 10), DigitText(n % 10)>>

RECURSIVE GroupedText(_)
GroupedText(n) ==
    IF n < 1000 THEN DecimalText(n) ELSE GroupedText(n \div 1000) \o <<",">> \o Group3(n % 1000)

\* format(N, ","): N written with comma thousands separators
FormatThousands(N) == IF N < 0 THEN <<"-">> \o GroupedText(-N) ELSE GroupedText(N)

\* a file of the dataset's layout whose one data row holds the numbers ns
\* written with thousands separators
NumbersFile(sector, name, ns) ==
    IF name = "USD Conversion Rates"
    THEN <<TitleLine(4), <<Blank, <<"Buying">>, <<"Selling">>, <<"Middle">>>>,
           <<Y1, FormatThousands(ns[1]), FormatThousands(ns[2]), FormatThousands(ns[2])>>>>
    ELSE SimpleFile(Blank, <<<<Blank, GDP, FormatThousands(ns[1]), FormatThousands(ns[2])>>>>,
                    Titled(sector, name))

RoundTripArgs ==
    {[fn |-> "load_csv", sector |-> a[1], name |-> a[2], numbers |-> a[3],
      file |-> NumbersFile(a[1], a[2], a[3])] :
        a \in UNION {{<<s, n, ns>> : n \in CsvFiles(s) \ {"Net Domestic Borrowings"},
                                     ns \in Numbers \X Numbers} : s \in Sectors}}

\* first data rows: metadata rows (repeated period labels, with and without
\* a label, and a blank row) and genuine rows (complete, with one missing
\* cell, with one period label among numbers, with a label holding the
\* word Annual)
FirstRowSet ==
    { <<Blank, Blank, <<"Annual">>, <<"Annual">>>>,
      <<Blank, <<"Period">>, <<"Annual">>, <<"Annual">>>>,
      <<Blank, <<"Period">>, <<"Quarterly">>, <<"Quarterly">>>>,
      <<Blank, <<"Period">>, <<"Mid-Jul">>, <<"Mid-Jul">>>>,
      <<Blank, Blank, Blank, Blank>>,
      <<Blank, GDP, <<"1", ",", "2", "0", "0">>, <<"3", "0">>>>,
      <<Blank, Tax, <<"7">>, Blank>>,
      <<Blank, GDP, <<"Annual">>, <<"5">>>>,
      <<Blank, <<"Annual", SP, "Growth">>, <<"3">>, <<"4">>>> }

LaterRowSet ==
    { <<Blank, GDP, <<"8">>, <<"9">>>>,
      <<Blank, Tax, <<"6">>, Blank>> }

FirstRowArgs ==
    {[fn |-> "load_csv", sector |-> a[1], name |-> a[2], numbers |-> <<>>,
      file |-> SimpleFile(Blank, <<a[3]>> \o a[4], Titled(a[1], a[2]))] :
        a \in UNION {{<<s, n, r, l>> : n \in CsvFiles(s) \cap DetectingDatasets,
                                       r \in FirstRowSet,
                                       l \in SeqsUpTo(LaterRowSet, 1)} : s \in Sectors}}

LoadArgs ==
    RoundTripArgs \cup FirstRowArgs \cup
    {[fn |-> "load_csv", sector |-> s, name |-> n, numbers |-> <<>>, file |-> f] :
        <<s, n, f>> \in UNION {{<<s1, n1, f1>> : f1 \in FilesFor(s1, n1)} :
                                  <<s1, n1>> \in UNION {{<<s2, n2>> : n2 \in CsvFiles(s2)} : s2 \in Sectors}}}

InitLoad ==
    /\ files = NoFiles
    /\ session_state = NoSession
    /\ view = NoView
    /\ first = NoFirst
    /\ last_choice = NoChoice
    /\ arg \in LoadArgs
    /\ ret = NoRet

CallLoad(sector) ==
    /\ arg.fn = "load_csv"
    /\ arg.sector = sector
    /\ ~ret.done
    /\ ret' = [done |-> TRUE] @@ load_csv(arg.sector, arg.name, arg.file)
    /\ UNCHANGED <<files, session_state, view, first, last_choice, arg>>

CallRealSectorLoad == CallLoad("Real Sector")
CallExternalSectorLoad == CallLoad("External Sector")
CallPublicFinancesLoad == CallLoad("Public Finances")

NextLoad == CallRealSectorLoad \/ CallExternalSectorLoad \/ CallPublicFinancesLoad

SpecLoad == InitLoad /\ [][NextLoad]_vars

----------------------------------------------------------------------------
(* Claims about load_csv, checked under SpecLoad *)

Categories(table) == [k \in 1..Len(table) |-> table[k].Category]

Loaded(name) == arg.fn = "load_csv" /\ arg.name = name /\ ret.done

\* the section scan as the specification words it: a row is a section
\* header when its sub-item column names a section, whatever its marker
RECURSIVE SpecSectionScan(_, _)
SpecSectionScan(rows, current_section) ==
    IF rows = <<>> THEN <<>>
    ELSE LET row == Head(rows) IN
         IF row[2] \in SectionHeaders
         THEN <<row[2]>> \o SpecSectionScan(Tail(rows), row[2])
         ELSE IF current_section # EmptyStr /\ MergedLabel(row) # EmptyStr
              THEN <<current_section \o <<SP, "-", SP>> \o MergedLabel(row)>>
                       \o SpecSectionScan(Tail(rows), current_section)
              ELSE <<MergedLabel(row)>> \o SpecSectionScan(Tail(rows), current_section)

\* C1: in Net Domestic Borrowings every section-header row (marker and
\* section name) is categorised by the bare section name and every later
\* labelled row by "{current_section} - {row_label}": the rows
\* ("A", "Gross Borrowings"), ("", "T-Bills"), ("B", "Payments") give
\* "Gross Borrowings", "Gross Borrowings - T-Bills", "Payments".
C1_HierarchicalLabels ==
    (/\ Loaded("Net Domestic Borrowings")
     /\ arg.file # Missing
     /\ ret.raised = ""
     /\ Len(ret.table) = Len(arg.file) - 1)
    => Categories(ret.table) = SpecSectionScan(Tail(arg.file), EmptyStr)

\* C2: every row of a returned table has a non-empty Category.
C2_NoEmptyCategory ==
    (arg.fn = "load_csv" /\ ret.done /\ ret.raised = "")
    => \A k \in 1..Len(ret.table) :
           ret.table[k].Category # EmptyStr /\ ~IsNA(ret.table[k].Category)

\* C3: every row of a returned table has a finite Value.
C3_ValuesFinite ==
    (arg.fn = "load_csv" /\ ret.done /\ ret.raised = "")
    => \A k \in 1..Len(ret.table) : IsFinite(ret.table[k].Value)

\* the cells of the period columns of a plainly melted file that parse
ParseableCells(lines) ==
    {rc \in (2..Len(lines)) \X (2..Len(lines[1])) :
        ParseFloat(RemoveCommas(lines[rc[1]][rc[2]])).k \in {"num", "inf"}}

\* C4: an unparseable cell excludes its own row only: the load completes,
\* keeps a row for every cell that parses and holds no NaN in place of the
\* cell.  (The row count is stated for the datasets melted without a
\* serial column, metadata row or section scan.)
C4_UnparseableCellDropsOnlyItsRow ==
    (arg.fn = "load_csv" /\ ret.done /\ arg.file # Missing)
    => /\ ret.raised # "ValueError"
       /\ \A k \in 1..Len(ret.table) : ret.table[k].Value.k # "nan"
       /\ (/\ arg.sector = "Real Sector" \/ arg.name = "Government Budget Operations"
           /\ arg.file[IF arg.sector = "Real Sector" THEN 2 ELSE 1][1] = <<"Particulars">>)
          => Len(ret.table) =
                 Cardinality(ParseableCells(
                     IF arg.sector = "Real Sector" THEN Tail(arg.file) ELSE arg.file))

IsUsdColumn(file, c, name) == Strip(file[2][c]) = name

\* C5: a USD Conversion Rates table holds no row of category "Middle" and
\* holds a row for every Buying and Selling cell that parses.
C5_NoMiddleRows ==
    (Loaded("USD Conversion Rates") /\ arg.file # Missing /\ ret.raised = "")
    => /\ \A k \in 1..Len(ret.table) : ret.table[k].Category # <<"Middle">>
       /\ \A r \in 3..Len(arg.file) : \A c \in 2..4 :
              (/\ IsUsdColumn(arg.file, c, <<"Buying">>) \/ IsUsdColumn(arg.file, c, <<"Selling">>)
               /\ ParseFloat(RemoveCommas(arg.file[r][c])).k = "num")
              => \E k \in 1..Len(ret.table) :
                     /\ ret.table[k].Category = Strip(arg.file[2][c])
                     /\ ret.table[k].Year = (IF arg.file[r][1] = Blank THEN NA ELSE arg.file[r][1])
                     /\ ret.table[k].Value = ParseFloat(RemoveCommas(arg.file[r][c]))

\* a USD table was returned from a file with a parseable Middle cell and a
\* padded " Middle " header, and it kept Buying or Selling rows
C5_Witness ==
    /\ Loaded("USD Conversion Rates")
    /\ arg.file # Missing
    /\ ret.raised = ""
    /\ arg.file[2][4] = <<SP, "Middle", SP>>
    /\ \E r \in 3..Len(arg.file) : ParseFloat(RemoveCommas(arg.file[r][4])).k = "num"
    /\ Len(ret.table) >= 2

\* C11: a number written with comma thousands separators is coerced back
\* to itself: the load completes and the table holds, for each written
\* number, the row of its column with that number as Value, and no other row.
C11_ThousandsRoundTrip ==
    (arg.fn = "load_csv" /\ ret.done /\ arg.numbers # <<>>)
    => /\ ret.raised = ""
       /\ Len(ret.table) = 2
       /\ \A c \in 1..2 :
              \E k \in 1..Len(ret.table) :
                  /\ ret.table[k].Value = Num(arg.numbers[c])
                  /\ IF arg.name = "USD Conversion Rates"
                     THEN /\ ret.table[k].Category = <<<<"Buying">>, <<"Selling">>>>[c]
                          /\ ret.table[k].Year = Y1
                     ELSE /\ ret.table[k].Category = GDP
                          /\ ret.table[k].Year = <<Y1, Y2>>[c]

\* 1,234,567 and -1,000 were written with their separators and loaded
C11_Witness ==
    /\ arg.fn = "load_csv"
    /\ ret.done
    /\ arg.numbers = <<1234567, -1000>>
    /\ arg.sector = "Real Sector"
    /\ arg.file[3][2] = <<"1", ",", "2", "3", "4", ",", "5", "6", "7">>
    /\ arg.file[3][3] = <<"-", "1", ",", "0", "0", "0">>
    /\ \E k \in 1..Len(ret.table) : ret.table[k].Value = Num(1234567)

\* the header line and the data lines the load reads
DataLines(a) == IF Titled(a.sector, a.name) THEN Tail(a.file) ELSE a.file

\* the detection rule: no cell of the row in the period columns parses as a
\* number (a blank row is such a row)
MetadataRow(line) ==
    \A c \in 2..Len(line) : ParseFloat(RemoveCommas(line[c])).k \notin {"num", "inf"}

\* the table holds the row of the cell
RowKept(table, lines, rc) ==
    \E k \in 1..Len(table) :
        /\ table[k].Category = (IF lines[rc[1]][1] = Blank THEN NA ELSE lines[rc[1]][1])
        /\ table[k].Year = lines[1][rc[2]]
        /\ table[k].Value = ParseFloat(RemoveCommas(lines[rc[1]][rc[2]]))

\* C12: in the datasets that test for a leading metadata row (files without
\* a serial column, with a data row), the first data row is taken out of
\* the grid exactly when none of its period cells parses as a number; the
\* load completes and every cell that parses, of a genuine first row and of
\* every later row, has its row in the table.
C12_MetadataRowDetection ==
    (/\ arg.fn = "load_csv" /\ ret.done
     /\ arg.name \in DetectingDatasets
     /\ arg.file # Missing
     /\ Len(DataLines(arg)) >= 2
     /\ DataLines(arg)[1][1] = <<"Particulars">>)
    => LET lines == DataLines(arg) IN
       /\ FirstRowDropped(arg.name, arg.file) <=> MetadataRow(lines[2])
       /\ ret.raised = ""
       /\ \A rc \in ParseableCells(lines) : RowKept(ret.table, lines, rc)

----------------------------------------------------------------------------
(* SpecView: child_buttons and regression_projection applied to drawn     *)
(* tables and widget values                                                *)

X == <<"X">>
Z == <<"Z">>
W == <<"W">>

\* period labels "2021", "2022", ...
YearLabel(i) == <<"2", "0", "2", ToString(i)>>

TRow(cat, yr, v) == [Category |-> cat, Year |-> yr, Value |-> v]

SeriesTable(cat, ys) == [i \in 1..Len(ys) |-> TRow(cat, YearLabel(i), Num(ys[i]))]

LinearSeries(a, b, n) == [i \in 1..n |-> a + b * (i - 1)]

Coefs == (-MaxCoef)..MaxCoef

LinearTables ==
    UNION {{SeriesTable(X, LinearSeries(a, b, n)),
            <<TRow(Z, YearLabel(1), Num(5))>> \o SeriesTable(X, LinearSeries(a, b, n))} :
              <<a, b, n>> \in Coefs \X Coefs \X (0..MaxPoints)}

SmallTables == {SeriesTable(X, ys) : ys \in SeqsUpTo({0, 1, 3}, 3)}

PivotRowSet ==
    {TRow(c, YearLabel(i), Num(1)) : <<c, i>> \in {X, Z} \X {1, 2}}
        \cup {TRow(X, YearLabel(1), Num(2))}

PivotTables == SeqsUpTo(PivotRowSet, MaxRows + 1)

OddTables ==
    { SeriesTable(X, <<10, 20, 30>>),
      <<TRow(NA, YearLabel(1), Num(1)), TRow(X, YearLabel(1), Num(1)),
        TRow(X, YearLabel(2), Num(2))>>,
      <<TRow(X, YearLabel(1), NaNf), TRow(X, YearLabel(2), Num(2))>>,
      <<TRow(X, YearLabel(1), Inf(1)), TRow(X, YearLabel(2), Num(2))>> }

ViewTables == LinearTables \cup SmallTables \cup PivotTables \cup OddTables

SetOf(seq) == {seq[i] : i \in 1..Len(seq)}

\* the widget values a run of child_buttons can see: any set of the
\* labelled categories in the multiselect, one category (None, written NA,
\* when there is none) in the selectbox, the button pressed or not
WidgetsOver(df) ==
    (SUBSET (SetOf(CategoriesOf(df)) \ {NA}))
        \X (IF df = <<>> THEN {NA} ELSE SetOf(CategoriesOf(df)))
        \X BOOLEAN

\* one dataset of the simple layout in each sector
SimpleDataset(sector) ==
    IF sector = "Real Sector" THEN "GDP at Constant Prices"
    ELSE IF sector = "External Sector" THEN "Exports"
    ELSE "Government Budget Operations"

\* the sector's load of each drawn simple file without a serial column that
\* returns a table, with the file it was read from
LoadedTables ==
    {l \in {[sector |-> s, source |-> f, df |-> load_csv(s, SimpleDataset(s), f)] :
               <<s, f>> \in UNION {{<<s1, SimpleFile(Blank, rows, Titled(s1, SimpleDataset(s1)))>> :
                                       rows \in SeqsUpTo(SimpleRowSet, MaxRows)} : s1 \in Sectors}} :
        l.df.raised = ""}

\* child_buttons on the drawn tables, and on the tables the sector loads
\* from the drawn files
ChildButtonsArgs ==
    UNION {{[fn |-> "child_buttons", sector |-> s, source |-> Missing, df |-> df,
             selected_sectors |-> w[1], selected_category |-> w[2], run_reg |-> w[3]] :
                w \in WidgetsOver(df)} :
              <<s, df>> \in Sectors \X ViewTables}
    \cup
    UNION {{[fn |-> "child_buttons", sector |-> l.sector, source |-> l.source, df |-> l.df.table,
             selected_sectors |-> w[1], selected_category |-> w[2], run_reg |-> w[3]] :
                w \in WidgetsOver(l.df.table)} :
              l \in LoadedTables}

RegressionArgs ==
    {[fn |-> "regression_projection", sector |-> s, df |-> df, category |-> c] :
        <<s, df, c>> \in Sectors \X ViewTables \X {X, Z, W, NA}}

InitView ==
    /\ files = NoFiles
    /\ session_state = NoSession
    /\ view = NoView
    /\ first = NoFirst
    /\ last_choice = NoChoice
    /\ arg \in ChildButtonsArgs \cup RegressionArgs
    /\ ret = NoRet

CallChildButtons ==
    /\ arg.fn = "child_buttons"
    /\ ~ret.done
    /\ ret' = [done |-> TRUE] @@
              child_buttons(arg.sector, arg.df, arg.selected_sectors,
                            arg.selected_category, arg.run_reg)
    /\ UNCHANGED <<files, session_state, view, first, last_choice, arg>>

CallRegressionProjection ==
    /\ arg.fn = "regression_projection"
    /\ ~ret.done
    /\ LET reg == regression_projection(arg.sector, arg.df, arg.category) IN
       ret' = [done |-> TRUE,
               raised |-> IF reg.kind = "raised" THEN "ValueError" ELSE "",
               reg |-> reg]
    /\ UNCHANGED <<files, session_state, view, first, last_choice, arg>>

NextView == CallChildButtons \/ CallRegressionProjection

SpecView == InitView /\ [][NextView]_vars

----------------------------------------------------------------------------
(* Claims about child_buttons and regression_projection, checked under     *)
(* SpecView                                                                *)

Projected == arg.fn = "regression_projection" /\ ret.done

\* C6: regression_projection with a category that has no row gives the
\* warning and returns: it raises nothing and fits nothing.
C6_EmptySelectionWarns ==
    (Projected /\ RowsOf(arg.df, arg.category) = <<>>)
    => ret.raised = "" /\ ret.reg.kind = "warning"

\* C7: when two rows of the selected categories share (Category, Year),
\* child_buttons reports the chart error and draws no chart.
C7_DuplicatePairIsError ==
    (/\ arg.fn = "child_buttons"
     /\ ret.done
     /\ HasDuplicates(RowsIn(arg.df, arg.selected_sectors)))
    => ret.chart = "error" /\ ret.data = {}

\* a run of child_buttons over a table loaded from a file with two rows of
\* one label, the duplicated pair among the selected categories
C7_Witness ==
    /\ arg.fn = "child_buttons"
    /\ ret.done
    /\ arg.source # Missing
    /\ HasDuplicates(RowsIn(arg.df, arg.selected_sectors))
    /\ ret.chart = "error"

\* the values of the category's rows, in table order
SeriesOf(df, category) ==
    LET rows == SelectSeq(df, LAMBDA row : row.Category = category)
    IN [i \in 1..Len(rows) |-> rows[i].Value]

\* y_i = y_1 + (y_2 - y_1) * (i - 1) for finite values
IsLinear(ys) ==
    /\ \A i \in 1..Len(ys) : IsFinite(ys[i])
    /\ \A i \in 1..Len(ys) : ys[i].n = ys[1].n + (ys[2].n - ys[1].n) * (i - 1)

\* C9: for an exactly linear series y_i = a + b*i over the positions
\* 0..n-1 (n >= 2) the fit has slope b and intercept a and projects
\* a + b*n; for [10, 20, 30] that is slope 10, intercept 10, projection 40,
\* with R-squared 1.
C9_PositionalFit ==
    (/\ Projected
     /\ ~IsNA(arg.category)
     /\ Len(SeriesOf(arg.df, arg.category)) >= 2
     /\ IsLinear(SeriesOf(arg.df, arg.category)))
    => LET ys == SeriesOf(arg.df, arg.category)
           a == ys[1].n
           b == ys[2].n - ys[1].n
       IN /\ ret.reg.kind = "fit"
          /\ ret.reg.slope = <<b, 1>>
          /\ ret.reg.intercept = <<a, 1>>
          /\ ret.reg.next_val = <<a + b * Len(ys), 1>>
          /\ (ys = <<Num(10), Num(20), Num(30)>>) =>
                 /\ ret.reg.slope = <<10, 1>>
                 /\ ret.reg.intercept = <<10, 1>>
                 /\ ret.reg.next_val = <<40, 1>>
                 /\ ret.reg.r2 = <<1, 1>>

\* the series [10, 20, 30] was fitted
C9_Witness ==
    /\ Projected
    /\ SeriesOf(arg.df, arg.category) = <<Num(10), Num(20), Num(30)>>
    /\ ret.reg.kind = "fit"
    /\ ret.reg.next_val = <<40, 1>>

----------------------------------------------------------------------------
(* Spec: the dashboard.  Every step is one run of main.py, started by one  *)
(* change of a widget; session_state is what survives between the runs.    *)

\* the `children` of each sector function, in the order of the selectbox,
\* and the CSV each child page loads
Children(sector) ==
    IF sector = "Real Sector"
    THEN <<"GDP at Constant Prices", "GDP by Expenditure Category", "Gross Domestic Savings">>
    ELSE IF sector = "External Sector"
    THEN <<"Exports", "Imports", "Foreign Employment", "USD Conversion Rates">>
    ELSE <<"Budget Operations", "GoN Revenue", "Debt Ownership", "Net Borrowings">>

CsvName(child) ==
    IF child = "Budget Operations" THEN "Government Budget Operations"
    ELSE IF child = "Net Borrowings" THEN "Net Domestic Borrowings"
    ELSE child

\* one key shared by the sector functions
SessionKeyShared(sector) == "real_sector_child"

SessionKey(sector) ==
    IF sector = "Real Sector" THEN "real_sector_child"
    ELSE IF sector = "External Sector" THEN "external_sector_child"
    ELSE "public_finances_child"

\* the value the sector function stores when the key is absent
DefaultChild(sector) == Children(sector)[1]

AllCsvNames == UNION {CsvFiles(s) : s \in Sectors}

SectorOfCsv(name) == CHOOSE s \in Sectors : name \in CsvFiles(s)

\* the files of a working installation
DefaultSimpleRows ==
    << <<<<"1">>, GDP, <<"1", ",", "2", "0", "0">>, <<"3", "0">>>>,
       <<<<"2">>, Tax, <<"7">>, <<"9">>>> >>

DefaultFile(name) ==
    IF name = "USD Conversion Rates"
    THEN <<TitleLine(4), <<Blank, <<"Buying">>, <<"Selling">>, <<"Middle">>>>,
           <<Y1, <<"1", "3", "0">>, <<"1", "3", "1">>, <<"1", "3", "0">>>>,
           <<Y2, <<"1", "3", "2">>, <<"1", "3", "3">>, <<"1", "3", "2">>>> >>
    ELSE IF name = "Net Domestic Borrowings"
    THEN <<HierHeader,
           <<<<"A">>, GrossBorrowings, Blank, <<"1", "0", "0">>>>,
           <<Blank, TBills, Blank, <<"4", "0">>>>,
           <<<<"B">>, Payments, Blank, <<"6", "0">>>> >>
    ELSE SimpleFile(Blank, DefaultSimpleRows, Titled(SectorOfCsv(name), name))

\* the file cut down to its title and header lines
HeaderOnly(name) ==
    SubSeq(DefaultFile(name), 1, IF Titled(SectorOfCsv(name), name) THEN 2 ELSE 1)

\* what the file of the dataset under observation may hold instead
OtherFiles(name) ==
    {Missing, HeaderOnly(name)} \cup
    (IF name = "USD Conversion Rates"
     THEN {<<TitleLine(4), <<<<"Date">>, <<"Buying">>, <<"Selling">>, <<"Middle">>>>,
             <<Y1, <<"1", "3", "0">>, <<"1", "3", "1">>, <<"1", "3", "0">>>> >>}
     ELSE IF name = "Net Domestic Borrowings"
     THEN {<<HierHeader,
             <<Blank, TBills, Blank, <<"4", "0">>>>,
             <<Blank, GrossBorrowings, Blank, <<"1", "0", "0">>>>,
             <<Blank, TBills, Blank, <<"4", "0">>>> >>}
     ELSE {})

Init ==
    /\ first \in {[name |-> n, loaded |-> FALSE, others |-> FALSE, raised |-> "",
                     table |-> <<>>] : n \in AllCsvNames}
    /\ files \in {[n \in AllCsvNames |-> IF n = first.name THEN f ELSE DefaultFile(n)] :
                     f \in {DefaultFile(first.name)} \cup OtherFiles(first.name)}
    /\ session_state = NoSession
    /\ view = NoView
    /\ last_choice = NoChoice
    /\ arg = NoArg
    /\ ret = NoRet

\* the child page: load_csv, then child_buttons; an exception of either
\* leaves the page, the sector function and main.py uncaught
ChildPage(sector, child, selected_sectors, selected_category, run_reg) ==
    LET loaded == load_csv(sector, CsvName(child), files[CsvName(child)]) IN
    IF loaded.raised # ""
    THEN [parent |-> sector, child |-> child, outcome |-> "uncaught",
          raised |-> loaded.raised, load_raised |-> loaded.raised, table |-> <<>>,
          chart |-> "", reg |-> NoReg]
    ELSE LET cats == CategoriesOf(loaded.table)
             ui == child_buttons(sector, loaded.table,
                                 IF selected_sectors THEN SetOf(cats) ELSE {},
                                 IF selected_category <= Len(cats)
                                 THEN cats[selected_category] ELSE NA,
                                 run_reg)
         IN [parent |-> sector, child |-> child,
             outcome |-> IF ui.raised # "" THEN "uncaught" ELSE "rendered",
             raised |-> ui.raised, load_raised |-> "", table |-> loaded.table,
             chart |-> ui.chart, reg |-> ui.reg]

\* the history kept for the dataset under observation: what its first
\* load returned, and whether another dataset was loaded since
Remember(page) ==
    IF CsvName(page.child) = first.name
    THEN IF first.loaded THEN first
         ELSE [first EXCEPT !.loaded = TRUE, !.raised = page.load_raised,
                            !.table = page.table]
    ELSE [first EXCEPT !.others = first.loaded]

NoPick == ""

\* main.py with `parent` chosen in the sidebar: the sector function stores
\* the default child when its key is absent, reads the selectbox (seeded
\* with the stored child; `pick` when this run was started by choosing a
\* child), stores the child and calls its page
\* list(children.keys()).index(stored) raises ValueError when the stored
\* child is no key of `children`: the selectbox is not drawn and the
\* exception leaves main.py uncaught
SectorRun(sector, pick, selected_sectors, selected_category, run_reg) ==
    LET key == SessionKey(sector)
        stored == IF session_state[key] = "" THEN DefaultChild(sector)
                  ELSE session_state[key]
        child == IF pick = NoPick THEN stored ELSE pick
        page == ChildPage(sector, child, selected_sectors, selected_category, run_reg)
    IN /\ view.parent = "" => sector = "Real Sector"
       /\ pick # NoPick => view.parent = sector /\ view.child # "" /\ pick # stored
       /\ (view.parent # sector \/ pick # NoPick) =>
              selected_sectors /\ selected_category = 1 /\ ~run_reg
       /\ IF stored \notin SetOf(Children(sector))
          THEN /\ session_state' = [session_state EXCEPT ![key] = stored]
               /\ view' = [parent |-> sector, child |-> "", outcome |-> "uncaught",
                           raised |-> "ValueError", load_raised |-> "", table |-> <<>>,
                           chart |-> "", reg |-> NoReg]
               /\ first' = first
               /\ last_choice' = [last_choice EXCEPT ![sector].ran = TRUE]
          ELSE /\ session_state' = [session_state EXCEPT ![key] = child]
               /\ view' = page
               /\ first' = Remember(page)
               /\ last_choice' = [last_choice EXCEPT ![sector] =
                                     [ran |-> TRUE,
                                      child |-> IF pick = NoPick THEN @.child ELSE pick]]
       /\ UNCHANGED <<files, arg, ret>>

\* the widget values of a run: the defaults (every category selected, the
\* first category, button not pressed), every category deselected, or the
\* button pressed with the second category chosen
WidgetValues ==
    {<<TRUE, 1, FALSE>>, <<FALSE, 1, FALSE>>, <<TRUE, 2, TRUE>>}

RunSector(sector) ==
    \E pick \in {NoPick} \cup SetOf(Children(sector)) : \E w \in WidgetValues :
        SectorRun(sector, pick, w[1], w[2], w[3])

RunRealSector == RunSector("Real Sector")
RunExternalSector == RunSector("External Sector")
RunPublicFinances == RunSector("Public Finances")

\* the Price Changes page; its module is not among the sources
RunPriceChanges ==
    /\ view.parent # ""
    /\ view' = [NoView EXCEPT !.parent = "Price Changes", !.outcome = "rendered"]
    /\ UNCHANGED <<files, session_state, first, last_choice, arg, ret>>

Next == RunRealSector \/ RunExternalSector \/ RunPublicFinances \/ RunPriceChanges

Spec == Init /\ [][Next]_vars

----------------------------------------------------------------------------
(* Claims about the dashboard, checked under Spec *)

Shown == view.parent \in Sectors

\* the dataset on view cannot be loaded or holds no row: its file is
\* missing, it is empty, or it lacks the column the loader melts on
DatasetFailure ==
    LET loaded == load_csv(view.parent, CsvName(view.child), files[CsvName(view.child)])
    IN loaded.raised \in {"FileNotFoundError", "EmptyDataError", "KeyError", "IndexError"}
           \/ loaded.table = <<>>

\* C8: a dataset-level failure is rendered as a message by the run that
\* meets it, which completes; a dataset whose file is sound renders
\* normally whatever failed in the runs before.
C8_LoadFailureConfined ==
    Shown => /\ DatasetFailure => view.outcome = "message" /\ view.raised = ""
             /\ ~DatasetFailure => view.outcome = "rendered"

C13_RememberedSelection ==
    /\ \A s \in Sectors :
           LET stored == session_state[SessionKey(s)] IN
           IF last_choice[s].ran
           THEN /\ stored \in SetOf(Children(s))
                /\ stored = (IF last_choice[s].child = "" THEN DefaultChild(s)
                             ELSE last_choice[s].child)
           ELSE stored = ""
    /\ view.raised # "ValueError" \/ view.child # ""

\* a child other than the default was chosen in two sectors, and a third
\* sector is on view with its default
C13_Witness ==
    /\ view.parent = "Real Sector"
    /\ last_choice["Real Sector"].child = ""
    /\ session_state["real_sector_child"] = "GDP at Constant Prices"
    /\ last_choice["External Sector"].child = "Imports"
    /\ session_state["external_sector_child"] = "Imports"
    /\ last_choice["Public Finances"].child = "Debt Ownership"
    /\ session_state["public_finances_child"] = "Debt Ownership"

====
